---- MODULE Spec2Model ----
(***************************************************************************)
(* Model of the fund NAV scraper (src/scraper.py): the incremental sync    *)
(* of a persisted JSON store (data.json) against a quote source that is    *)
(* asked one date at a time.                                               *)
(*                                                                         *)
(* Calendar dates are day ordinals; ordinal n falls on weekday n % 7 with  *)
(* 0 = Monday, as datetime.weekday() counts.  The two string formats the   *)
(* program uses are kept apart: [ymd |-> n] is strftime('%Y%m%d') and      *)
(* [iso |-> n] is strftime('%Y-%m-%d'); the two never compare equal, as    *)
(* the strings do not.  A Python None is the empty set and a value v is    *)
(* the singleton {v}.                                                      *)
(***************************************************************************)
EXTENDS Integers, Sequences, FiniteSets, TLC

VARIABLES
    today,            \* datetime.now().date(), as a day ordinal
    runs,             \* number of runs of main() started so far
    disk,             \* the file at DATA_PATH
    source,           \* what the quote source has answered, per requested date
    pc,               \* position of the current run of main()
    backfill,         \* main(): the --backfill flag of the current run
    num_days,         \* main(): the window size of the current run
    dates_to_scrape,  \* main(): the dates the run requests
    fetched,          \* scrape_multiple_dates(): the dates the loop has done
    all_results,      \* scrape_multiple_dates(): accepted batches, in order
    skipped_dates,    \* scrape_multiple_dates(): dates to mark unavailable
    data,             \* update_json_data(): the store being written
    diskAtStart,      \* the file as it was when the current run started
    repeat,           \* the run repeats the one just finished (same window,
                      \* same mode, same day, same source answers)
    market,           \* market_scraper: the contents of market_data.json
    df                \* market_scraper: the frame of the last yf.download

vars == <<today, runs, disk, source, pc, backfill, num_days, dates_to_scrape,
          fetched, all_results, skipped_dates, data, diskAtStart, repeat,
          market, df>>

----------------------------------------------------------------------------
(* Bounds of the model *)

MaxRuns == 2
MaxWindow == 2
MaxAdvance == 1
FirstDay == 14

(* Program constants *)

(* get_business_days on its own: the counts and end dates it is called with *)
MaxCount == 7
LastEndDay == 13

MaxOffsetDays == 5
WeekendStart == 5

(* FUNDS: two of the seven tracked fund codes *)
Funds == {"RBF5736", "RBF2146"}

(* What a page can show for the tracked funds: per fund, the nav and the   *)
(* change_percent that the regular expressions of                          *)
(* extract_funds_from_list_page find, or None.  Three pages: every fund    *)
(* priced, only the first fund priced (at another price, without a change),*)
(* no tracked fund found.                                                  *)
Priced == [nav |-> {10}, change_percent |-> {1}]
Repriced == [nav |-> {11}, change_percent |-> {}]
NotFound == [nav |-> {}, change_percent |-> {}]
FirstFund == "RBF5736"
Batches == { [f \in Funds |-> Priced],
             [f \in Funds |-> IF f = FirstFund THEN Repriced ELSE NotFound],
             [f \in Funds |-> NotFound] }

(* The displayed 'as of' date, relative to the requested date *)
AsOfOffsets == {-6, -5, -3, 0, 6}

----------------------------------------------------------------------------
(* Dates *)

Ymd(n) == [ymd |-> n]
Iso(n) == [iso |-> n]
YmdToIso(d) == [iso |-> d.ymd]
ParseYmd(d) == d.ymd
ParseIso(d) == d.iso
(* A weekday numbering that starts the week on Sunday *)
WeekdaySundayFirst(n) == (n + 1) % 7

Weekday(n) == n % 7
Abs(x) == IF x < 0 THEN -x ELSE x

RECURSIVE BusinessDaysLoop(_, _, _)
BusinessDaysLoop(dates, current, n) ==
    IF Len(dates) >= n THEN dates
    ELSE BusinessDaysLoop(
             IF Weekday(current) < WeekendStart
             THEN Append(dates, Ymd(current)) ELSE dates,
             current - 1, n)

GetBusinessDays(n, end_date) == BusinessDaysLoop(<<>>, end_date, n)

----------------------------------------------------------------------------
(* The store and the file that holds it *)

EmptyStore ==
    [funds |-> [f \in Funds |-> <<>>],
     unavailable_dates |-> {},
     last_checked |-> {},
     last_updated |-> {},
     rbc_data_date |-> {}]

Absent == [state |-> "absent", content |-> EmptyStore]
Truncated == [state |-> "partial", content |-> EmptyStore]
Written(store) == [state |-> "complete", content |-> store]

(* A load that takes an unreadable file for a missing one *)
LoadDataLenient(file) ==
    IF file.state = "complete" THEN [ok |-> TRUE, data |-> file.content]
    ELSE [ok |-> TRUE, data |-> EmptyStore]

LoadData(file) ==
    IF file.state = "absent" THEN [ok |-> TRUE, data |-> EmptyStore]
    ELSE IF file.state = "partial" THEN [ok |-> FALSE, data |-> EmptyStore]
    ELSE [ok |-> TRUE, data |-> file.content]

DatesOf(history) == {history[i].date : i \in 1..Len(history)}

(* A gap detector for which one fund's entry covers a date *)
ExistingDatesAny(store) ==
    UNION {DatesOf(store.funds[f]) : f \in Funds}

(* get_missing_dates: the window dates not covered by every fund and not   *)
(* known to be unavailable, most recent first.  ok is FALSE when load_data *)
(* raises.                                                                 *)
ExistingDates(store) ==
    {d \in UNION {DatesOf(store.funds[f]) : f \in Funds} :
        \A f \in Funds : d \in DatesOf(store.funds[f])}

IsMissing(store, d) ==
    /\ YmdToIso(d) \notin ExistingDates(store)
    /\ d \notin store.unavailable_dates

GetMissingDates(file, n, end_date) ==
    LET loaded == LoadData(file)
        all_business_days == GetBusinessDays(n, end_date)
    IN  [ok |-> loaded.ok,
         dates |-> IF loaded.ok
                   THEN SelectSeq(all_business_days,
                                  LAMBDA d : IsMissing(loaded.data, d))
                   ELSE <<>>]

----------------------------------------------------------------------------
(* The quote source.  A page is what one request shows: error is TRUE when *)
(* page.goto or page.inner_text raises, as_of is what parse_as_of_date     *)
(* returns, quotes is what extract_funds_from_list_page would find.        *)

NoQuotes == [f \in Funds |-> NotFound]
ErrorPage == [error |-> TRUE, as_of |-> {}, quotes |-> NoQuotes]

Pages(date_str) ==
    {ErrorPage}
    \cup {[error |-> FALSE, as_of |-> {}, quotes |-> NoQuotes]}
    \cup {[error |-> FALSE, as_of |-> {Iso(ParseYmd(date_str) + o)}, quotes |-> q] :
             o \in AsOfOffsets, q \in Batches}

Keys(results) == {results[i].date : i \in 1..Len(results)}

(* A range check that already rejects a distance of MaxOffsetDays *)
OutOfRangeInclusive(date_str, actual_date) ==
    Abs(ParseIso(actual_date) - ParseYmd(date_str)) >= MaxOffsetDays

(* The displayed date is more than MaxOffsetDays away from the requested   *)
(* one, in either direction                                                *)
OutOfRange(date_str, actual_date) ==
    Abs(ParseIso(actual_date) - ParseYmd(date_str)) > MaxOffsetDays

(* extract_funds_from_list_page: one result per fund, dated actual_date *)
ExtractFunds(page, actual_date) ==
    [f \in Funds |-> [nav |-> page.quotes[f].nav,
                      change_percent |-> page.quotes[f].change_percent,
                      date |-> actual_date]]

(* A loop body that does not mark a requested date whose page displays     *)
(* another date                                                            *)
ScrapeOneNoMark(date_str, page, results, skipped) ==
    IF page.error
    THEN [all_results |-> results, skipped_dates |-> skipped]
    ELSE IF page.as_of = {}
    THEN [all_results |-> results, skipped_dates |-> skipped \cup {date_str}]
    ELSE LET actual_date == CHOOSE a \in page.as_of : TRUE
         IN  IF OutOfRange(date_str, actual_date)
             THEN [all_results |-> results,
                   skipped_dates |-> skipped \cup {date_str}]
             ELSE IF actual_date \in Keys(results)
             THEN [all_results |-> results, skipped_dates |-> skipped]
             ELSE [all_results |->
                       Append(results, [date |-> actual_date,
                                        results |-> ExtractFunds(page, actual_date)]),
                   skipped_dates |-> skipped]

(* A loop body that marks a date whose request raised *)
ScrapeOneErrorSkips(date_str, page, results, skipped) ==
    IF page.error
    THEN [all_results |-> results, skipped_dates |-> skipped \cup {date_str}]
    ELSE IF page.as_of = {}
    THEN [all_results |-> results, skipped_dates |-> skipped \cup {date_str}]
    ELSE LET actual_date == CHOOSE a \in page.as_of : TRUE
             skipped2 == IF actual_date # YmdToIso(date_str)
                         THEN skipped \cup {date_str} ELSE skipped
         IN  IF OutOfRange(date_str, actual_date)
             THEN [all_results |-> results,
                   skipped_dates |-> skipped \cup {date_str}]
             ELSE IF actual_date \in Keys(results)
             THEN [all_results |-> results, skipped_dates |-> skipped2]
             ELSE [all_results |->
                       Append(results, [date |-> actual_date,
                                        results |-> ExtractFunds(page, actual_date)]),
                   skipped_dates |-> skipped2]

(* One iteration of the loop of scrape_multiple_dates on the page shown    *)
(* for date_str: the new all_results and skipped_dates.                    *)
ScrapeOne(date_str, page, results, skipped) ==
    IF page.error
    THEN [all_results |-> results, skipped_dates |-> skipped]
    ELSE IF page.as_of = {}
    THEN [all_results |-> results, skipped_dates |-> skipped \cup {date_str}]
    ELSE LET actual_date == CHOOSE a \in page.as_of : TRUE
             requested_iso == YmdToIso(date_str)
             skipped2 == IF actual_date # requested_iso
                         THEN skipped \cup {date_str} ELSE skipped
         IN  IF OutOfRange(date_str, actual_date)
             THEN [all_results |-> results,
                   skipped_dates |-> skipped \cup {date_str}]
             ELSE IF actual_date \in Keys(results)
             THEN [all_results |-> results, skipped_dates |-> skipped2]
             ELSE [all_results |->
                       Append(results, [date |-> actual_date,
                                        results |-> ExtractFunds(page, actual_date)]),
                   skipped_dates |-> skipped2]

----------------------------------------------------------------------------
(* update_json_data *)

(* list.sort(key=date): stable, ascending by the ISO date string *)
InsertByDate(sorted, e) ==
    LET k == Cardinality({i \in 1..Len(sorted) :
                             ParseIso(sorted[i].date) <= ParseIso(e.date)})
    IN  SubSeq(sorted, 1, k) \o <<e>> \o SubSeq(sorted, k + 1, Len(sorted))

RECURSIVE SortByDate(_)
SortByDate(history) ==
    IF history = <<>> THEN <<>>
    ELSE InsertByDate(SortByDate(SubSeq(history, 1, Len(history) - 1)),
                      history[Len(history)])

(* A merge that does not look for an entry of the same date *)
AppendResultAlways(history, r) ==
    IF r.nav # {}
    THEN Append(history, [date |-> r.date, nav |-> r.nav,
                          change_percent |-> r.change_percent])
    ELSE history

(* A merge in which a result replaces the fund's entry of the same date *)
AppendResultOverwrite(history, r) ==
    LET entry == [date |-> r.date, nav |-> r.nav,
                  change_percent |-> r.change_percent]
    IN  IF r.nav = {} THEN history
        ELSE IF r.date \in DatesOf(history)
        THEN [i \in 1..Len(history) |->
                 IF history[i].date = r.date THEN entry ELSE history[i]]
        ELSE Append(history, entry)

(* A merge keyed on the price: the result is appended when its nav differs *)
(* from the nav of the fund's latest entry                                 *)
AppendResultIfPriceChanged(history, r) ==
    IF r.nav # {} /\ (history = <<>> \/ history[Len(history)].nav # r.nav)
    THEN Append(history, [date |-> r.date, nav |-> r.nav,
                          change_percent |-> r.change_percent])
    ELSE history

(* The result r of one fund is appended unless it has no nav or the fund   *)
(* already has an entry of that date.                                      *)
AppendResult(history, r) ==
    IF r.nav # {} /\ r.date \notin DatesOf(history)
    THEN Append(history, [date |-> r.date, nav |-> r.nav,
                          change_percent |-> r.change_percent])
    ELSE history

(* A merge that leaves the histories in the order of arrival *)
MergeDateUnsorted(funds, item) ==
    [f \in Funds |-> IF item.results[f].nav # {}
                        /\ item.results[f].date \notin DatesOf(funds[f])
                     THEN Append(funds[f],
                                 [date |-> item.results[f].date,
                                  nav |-> item.results[f].nav,
                                  change_percent |-> item.results[f].change_percent])
                     ELSE funds[f]]

(* One pass of the outer loop: the results of one date, then the sort *)
MergeDate(funds, item) ==
    [f \in Funds |-> SortByDate(AppendResult(funds[f], item.results[f]))]

(* A merge that returns after the results of the first date *)
MergeAllFirstOnly(funds, results) ==
    IF results = <<>> THEN funds ELSE MergeDate(funds, Head(results))

RECURSIVE MergeAll(_, _)
MergeAll(funds, results) ==
    IF results = <<>> THEN funds
    ELSE MergeAll(MergeDate(funds, Head(results)), Tail(results))

(* A marking that writes the run's skipped dates over the stored ones *)
MarkUnavailableReplace(unavailable, skipped) ==
    IF skipped # {} THEN skipped ELSE unavailable

MarkUnavailable(unavailable, skipped) ==
    IF skipped # {} THEN unavailable \cup skipped ELSE unavailable

LatestKey(results) ==
    {d \in Keys(results) : \A e \in Keys(results) : ParseIso(e) <= ParseIso(d)}

(* An update that leaves the stored timestamps as they were *)
UpdateStoreKeepsTimestamps(store, results, skipped, now) ==
    [funds |-> MergeAll(store.funds, results),
     unavailable_dates |-> MarkUnavailable(store.unavailable_dates, skipped),
     last_checked |-> store.last_checked,
     last_updated |-> store.last_updated,
     rbc_data_date |-> IF results # <<>> THEN LatestKey(results)
                       ELSE store.rbc_data_date]

UpdateStore(store, results, skipped, now) ==
    [funds |-> MergeAll(store.funds, results),
     unavailable_dates |-> MarkUnavailable(store.unavailable_dates, skipped),
     last_checked |-> {now},
     last_updated |-> {now},
     rbc_data_date |-> IF results # <<>> THEN LatestKey(results)
                       ELSE store.rbc_data_date]

----------------------------------------------------------------------------
(* market_scraper.py *)

Tickers == {"^GSPC", "^GSPTSE"}

(* The cap of a ticker's history, and the periods asked of yf.download:    *)
(* "1y", a year of calendar days, and "5d", five daily bars                *)
HistoryCap == 260
YearDays == 365
UpdateBars == 5

(* load_data when the file does not exist *)
EmptyMarket == [indices |-> [t \in Tickers |-> <<>>], last_updated |-> {}]

NeedsBackfill(store) == \E t \in Tickers : Len(store.indices[t]) = 0
PeriodOf(store) == IF NeedsBackfill(store) THEN "1y" ELSE "5d"

(* The weekdays before day ordinal d, counted from day 0, and the weekday  *)
(* of a given count                                                        *)
WeekdaysBefore(d) == 5 * (d \div 7) + (IF d % 7 < 5 THEN d % 7 ELSE 5)
NthWeekday(k) == 7 * (k \div 5) + (k % 5)

(* The index of the frame: the days with a daily bar in the period that    *)
(* ends today, oldest first                                                *)
TradingDays(period, end_day) ==
    LET last == WeekdaysBefore(end_day + 1)
        first == IF period = "1y" THEN WeekdaysBefore(end_day - YearDays + 1)
                 ELSE last - UpdateBars
    IN  [i \in 1..(last - first) |-> NthWeekday(first + i - 1)]

(* Closes are in thousandths; round(float(close), 2) gives hundredths.     *)
(* The closes of the model end in 4, so no close is halfway.               *)
RawClose(day) == 100004 + 10 * (day % 7)
Round2(close) == (close + 5) \div 10

(* df[ticker]["Close"] raises KeyError, or is a column over the index in   *)
(* which the latest bar may be NaN                                         *)
KeyError == [key_error |-> TRUE, close |-> <<>>]
Column(days, latest_nan) ==
    [key_error |-> FALSE,
     close |-> [i \in 1..Len(days) |->
                  [ts |-> days[i],
                   close |-> IF latest_nan /\ i = Len(days) THEN {}
                             ELSE {RawClose(days[i])}]]]
Columns(period, end_day) ==
    {KeyError} \cup {Column(TradingDays(period, end_day), b) : b \in BOOLEAN}
Frames(period, end_day) == [Tickers -> Columns(period, end_day)]
NoFrame == [t \in Tickers |-> KeyError]

DropNa(close) == SelectSeq(close, LAMBDA r : r.close # {})

(* The loop over ticker_close.items(): existing_dates is taken before it *)
AppendRows(history, ticker_close) ==
    LET existing_dates == DatesOf(history)
        fresh == SelectSeq(ticker_close, LAMBDA r : Iso(r.ts) \notin existing_dates)
    IN  history \o [i \in 1..Len(fresh) |->
                       [date |-> Iso(fresh[i].ts),
                        close |-> Round2(CHOOSE c \in fresh[i].close : TRUE)]]

(* history.sort(key=date): stable, ascending by the ISO date string. The   *)
(* entries are inserted one by one; the list is halved, and the length of  *)
(* the first half's result is looked at, which is always as tested, so     *)
(* that the evaluation stays shallow.                                      *)
RECURSIVE InsertAllByDate(_, _)
InsertAllByDate(sorted, entries) ==
    IF entries = <<>> THEN sorted
    ELSE IF Len(entries) = 1 THEN InsertByDate(sorted, entries[1])
    ELSE LET half == Len(entries) \div 2
             first == InsertAllByDate(sorted, SubSeq(entries, 1, half))
         IN  IF Len(first) = Len(sorted) + half
             THEN InsertAllByDate(first, SubSeq(entries, half + 1, Len(entries)))
             ELSE <<>>

SortHistory(history) == InsertAllByDate(<<>>, history)

(* A cap that keeps the first entries *)
CapOldest(history) ==
    IF Len(history) > HistoryCap
    THEN SubSeq(history, 1, HistoryCap)
    ELSE history

(* history[-260:] when the history is longer than 260 *)
Cap(history) ==
    IF Len(history) > HistoryCap
    THEN SubSeq(history, Len(history) - HistoryCap + 1, Len(history))
    ELSE history

(* The body of the loop over the tickers *)
UpdateTicker(history, column) ==
    IF column.key_error THEN history
    ELSE Cap(SortHistory(AppendRows(history, DropNa(column.close))))

----------------------------------------------------------------------------
(* The runs *)

NoAnswers == [d \in {} |-> ErrorPage]
Ended == {"idle", "done", "failed", "crashed"}

Init ==
    /\ today = FirstDay
    /\ runs = 0
    /\ disk = Absent
    /\ source = NoAnswers
    /\ pc = "idle"
    /\ backfill = FALSE
    /\ num_days = 1
    /\ dates_to_scrape = <<>>
    /\ fetched = <<>>
    /\ all_results = <<>>
    /\ skipped_dates = {}
    /\ data = EmptyStore
    /\ diskAtStart = Absent
    /\ repeat = FALSE
    /\ market = EmptyMarket
    /\ df = NoFrame

(* A main that asks get_missing_dates in both modes *)
StartRunFiltered(bf, n) ==
    /\ pc \in Ended
    /\ runs < MaxRuns
    /\ runs' = runs + 1
    /\ backfill' = bf
    /\ num_days' = n
    /\ repeat' = (pc = "done" /\ backfill = bf /\ num_days = n)
    /\ diskAtStart' = disk
    /\ fetched' = <<>>
    /\ all_results' = <<>>
    /\ skipped_dates' = {}
    /\ data' = EmptyStore
    /\ LET missing == GetMissingDates(disk, n, today)
       IN  /\ dates_to_scrape' = missing.dates
           /\ pc' = IF ~missing.ok THEN "failed"
                    ELSE IF missing.dates = <<>> THEN "done" ELSE "fetch"
    /\ UNCHANGED <<market, df>>
    /\ UNCHANGED <<today, disk, source>>

(* main, up to the call of scrape_multiple_dates *)
StartRun(bf, n) ==
    /\ pc \in Ended
    /\ runs < MaxRuns
    /\ runs' = runs + 1
    /\ backfill' = bf
    /\ num_days' = n
    /\ repeat' = (pc = "done" /\ backfill = bf /\ num_days = n)
    /\ diskAtStart' = disk
    /\ fetched' = <<>>
    /\ all_results' = <<>>
    /\ skipped_dates' = {}
    /\ data' = EmptyStore
    /\ IF bf
       THEN /\ dates_to_scrape' = GetBusinessDays(n, today)
            /\ pc' = "fetch"
       ELSE LET missing == GetMissingDates(disk, n, today)
            IN  /\ dates_to_scrape' = missing.dates
                /\ pc' = IF ~missing.ok THEN "failed"
                         ELSE IF missing.dates = <<>> THEN "done"
                         ELSE "fetch"
    /\ UNCHANGED <<market, df>>
    /\ UNCHANGED <<today, disk, source>>

(* What the source shows for date_str: what it showed before, if asked *)
Shown(date_str) ==
    IF date_str \in DOMAIN source
    THEN {p \in Pages(date_str) :
            /\ p.error = source[date_str].error
            /\ p.as_of = source[date_str].as_of
            /\ source[date_str].quotes \subseteq {p.quotes}}
    ELSE Pages(date_str)

Remember(date_str, page, extracted) ==
    LET before == IF date_str \in DOMAIN source
                  THEN source[date_str].quotes ELSE {}
    IN  [d \in DOMAIN source \cup {date_str} |->
            IF d = date_str
            THEN [error |-> page.error, as_of |-> page.as_of,
                  quotes |-> IF extracted THEN {page.quotes} ELSE before]
            ELSE source[d]]

(* scrape_multiple_dates: one iteration of the loop *)
ScrapeDate ==
    /\ pc = "fetch"
    /\ Len(fetched) < Len(dates_to_scrape)
    /\ LET date_str == dates_to_scrape[Len(fetched) + 1]
       IN  \E page \in Shown(date_str) :
              LET r == ScrapeOne(date_str, page, all_results, skipped_dates)
              IN  /\ all_results' = r.all_results
                  /\ skipped_dates' = r.skipped_dates
                  /\ source' = Remember(date_str, page,
                                        Len(r.all_results) > Len(all_results))
                  /\ fetched' = Append(fetched, date_str)
    /\ UNCHANGED <<market, df>>
    /\ UNCHANGED <<today, runs, disk, pc, backfill, num_days, dates_to_scrape,
                   data, diskAtStart, repeat>>

(* scrape_multiple_dates: sync_playwright, the browser launch or the new   *)
(* page raises, outside the loop's try; main re-raises                     *)
LaunchFails ==
    /\ pc = "fetch"
    /\ fetched = <<>>
    /\ pc' = "failed"
    /\ UNCHANGED <<market, df>>
    /\ UNCHANGED <<today, runs, disk, source, backfill, num_days, dates_to_scrape,
                   fetched, all_results, skipped_dates, data, diskAtStart, repeat>>

(* update_json_data, up to and including open(DATA_PATH, 'w') of save_data. *)
(* The number of the run stands for datetime.now() in the timestamps.      *)
UpdateJsonData ==
    /\ pc = "fetch"
    /\ Len(fetched) = Len(dates_to_scrape)
    /\ LET loaded == LoadData(disk)
       IN  IF loaded.ok
           THEN /\ data' = UpdateStore(loaded.data, all_results, skipped_dates, runs)
                /\ disk' = Truncated
                /\ pc' = "saving"
           ELSE /\ pc' = "failed"
                /\ UNCHANGED <<data, disk>>
    /\ UNCHANGED <<market, df>>
    /\ UNCHANGED <<today, runs, source, backfill, num_days, dates_to_scrape,
                   fetched, all_results, skipped_dates, diskAtStart, repeat>>

(* save_data: json.dump has written everything and the file is closed *)
SaveData ==
    /\ pc = "saving"
    /\ disk' = Written(data)
    /\ pc' = "done"
    /\ UNCHANGED <<market, df>>
    /\ UNCHANGED <<today, runs, source, backfill, num_days, dates_to_scrape,
                   fetched, all_results, skipped_dates, data, diskAtStart, repeat>>

(* The process is stopped between the open and the end of json.dump *)
Crash ==
    /\ pc = "saving"
    /\ pc' = "crashed"
    /\ UNCHANGED <<market, df>>
    /\ UNCHANGED <<today, runs, disk, source, backfill, num_days, dates_to_scrape,
                   fetched, all_results, skipped_dates, data, diskAtStart, repeat>>

(* Between runs: the process of the last run is gone *)
Forget ==
    /\ pc' = "idle"
    /\ backfill' = FALSE
    /\ num_days' = 1
    /\ dates_to_scrape' = <<>>
    /\ fetched' = <<>>
    /\ all_results' = <<>>
    /\ skipped_dates' = {}
    /\ data' = EmptyStore
    /\ diskAtStart' = disk
    /\ repeat' = FALSE

NextDay ==
    /\ pc \in Ended
    /\ today < FirstDay + MaxAdvance
    /\ today' = today + 1
    /\ Forget
    /\ UNCHANGED <<market, df>>
    /\ UNCHANGED <<runs, disk, source>>

SourceChanges ==
    /\ pc \in Ended
    /\ source # NoAnswers
    /\ source' = NoAnswers
    /\ Forget
    /\ UNCHANGED <<market, df>>
    /\ UNCHANGED <<today, runs, disk>>

Next ==
    \/ \E bf \in BOOLEAN, n \in 1..MaxWindow : StartRun(bf, n)
    \/ LaunchFails
    \/ ScrapeDate
    \/ UpdateJsonData
    \/ SaveData
    \/ Crash
    \/ NextDay
    \/ SourceChanges

Spec == Init /\ [][Next]_vars

(* The exit status of the process: 0 when main returns, 1 when it raises *)
----------------------------------------------------------------------------
(* get_business_days called on its own, for every count and end date *)

CalendarInit ==
    /\ today \in 0..LastEndDay
    /\ num_days \in 0..MaxCount
    /\ runs = 0
    /\ disk = Absent
    /\ source = NoAnswers
    /\ pc = "idle"
    /\ backfill = TRUE
    /\ dates_to_scrape = <<>>
    /\ fetched = <<>>
    /\ all_results = <<>>
    /\ skipped_dates = {}
    /\ data = EmptyStore
    /\ diskAtStart = Absent
    /\ repeat = FALSE
    /\ market = EmptyMarket
    /\ df = NoFrame

GetBusinessDaysCall ==
    /\ pc = "idle"
    /\ dates_to_scrape' = GetBusinessDays(num_days, today)
    /\ pc' = "done"
    /\ UNCHANGED <<market, df>>
    /\ UNCHANGED <<today, runs, disk, source, backfill, num_days, fetched,
                   all_results, skipped_dates, data, diskAtStart, repeat>>

CalendarNext == GetBusinessDaysCall

SpecCalendar == CalendarInit /\ [][CalendarNext]_vars

----------------------------------------------------------------------------
(* The runs of market_scraper.py *)

(* main of market_scraper.py: load, download, update every ticker, save.   *)
(* The number of the run stands for datetime.now() in last_updated.        *)
MarketMain ==
    /\ runs < MaxRuns
    /\ runs' = runs + 1
    /\ \E frame \in Frames(PeriodOf(market), today) :
          /\ df' = frame
          /\ market' = [indices |-> [t \in Tickers |->
                                        UpdateTicker(market.indices[t], frame[t])],
                        last_updated |-> {runs'}]
    /\ UNCHANGED <<today, disk, source, pc, backfill, num_days, dates_to_scrape,
                   fetched, all_results, skipped_dates, data, diskAtStart, repeat>>

MarketNextDay ==
    /\ today < FirstDay + MaxAdvance
    /\ today' = today + 1
    /\ UNCHANGED <<runs, disk, source, pc, backfill, num_days, dates_to_scrape,
                   fetched, all_results, skipped_dates, data, diskAtStart, repeat,
                   market, df>>

MarketNext == MarketMain \/ MarketNextDay

SpecMarket == Init /\ [][MarketNext]_vars

ExitStatus ==
    IF pc = "done" THEN {0} ELSE IF pc = "failed" THEN {1} ELSE {}

----------------------------------------------------------------------------
(* Vocabulary of the properties *)

Range(seq) == {seq[i] : i \in 1..Len(seq)}
History(file, f) == file.content.funds[f]
Unavailable(file) == file.content.unavailable_dates
EntriesOn(history, day) == {i \in 1..Len(history) : history[i].date.iso = day}

(* update_json_data has returned: the run merged and persisted *)
Committed == pc = "done" /\ dates_to_scrape # <<>>

(* The fund histories of a store are strictly increasing by date *)
Increasing(store) ==
    \A f \in Funds : \A i \in 1..(Len(store.funds[f]) - 1) :
        store.funds[f][i].date.iso < store.funds[f][i + 1].date.iso

(* How the request of date r of the current run was answered *)
Failed(r) == source[r].error
Unresolved(r) == ~source[r].error /\ source[r].as_of = {}
Answered(r, day) == ~source[r].error /\ source[r].as_of = {Iso(day)}
Distance(r, day) == IF day >= r.ymd THEN day - r.ymd ELSE r.ymd - day

(* The entries of `after` that `before` does not hold *)
Added(before, after, f) ==
    {e \in Range(History(after, f)) : e \notin Range(History(before, f))}

MissingNext == Range(GetMissingDates(disk, num_days, today).dates)

----------------------------------------------------------------------------
(* C1: whatever the runs and the batches, every fund's history, in the     *)
(* store being written and in the file, is strictly increasing by date, so *)
(* no two entries of one fund share a date.                                *)
C1_HistoryStrictlyIncreasing ==
    /\ Increasing(data)
    /\ Increasing(disk.content)

(* A second run has delivered, out of order and again, dates that the file *)
(* held, and a fund holds several entries.                                 *)
C1_Witness ==
    /\ Committed
    /\ runs = 2
    /\ \E f \in Funds :
          /\ Len(History(disk, f)) >= 3
          /\ Added(diskAtStart, disk, f) # {}
          /\ \E i \in 1..Len(all_results) :
                /\ all_results[i].results[f].nav # {}
                /\ all_results[i].date \in DatesOf(History(diskAtStart, f))
                /\ \E e \in Added(diskAtStart, disk, f) :
                      e.date.iso < all_results[i].date.iso

----------------------------------------------------------------------------
SameObservations(a, b) ==
    /\ \A f \in Funds : History(a, f) = History(b, f)
    /\ Unavailable(a) = Unavailable(b)

(* Two pages that display the same date show the same quotes *)
Coherent ==
    \A r1 \in DOMAIN source : \A r2 \in DOMAIN source :
        ( /\ source[r1].as_of # {}
          /\ source[r1].as_of = source[r2].as_of
          /\ source[r1].quotes # {}
          /\ source[r2].quotes # {} )
        => source[r1].quotes = source[r2].quotes

(* C2, as claimed: a run that repeats the run just finished (same window,  *)
(* same mode, every requested date answered as before) leaves every        *)
(* history and unavailable_dates as the first run left them.               *)
C2_Idempotent ==
    (pc = "done" /\ repeat) => SameObservations(disk, diskAtStart)

(* C2, amended: the repeated run leaves every history and unavailable_dates *)
(* as the first run left them in backfill mode, and in incremental mode    *)
(* when the pages that display the same date show the same quotes.         *)
C2_IdempotentCoherentSource ==
    (pc = "done" /\ repeat /\ (backfill \/ Coherent))
        => SameObservations(disk, diskAtStart)

(* A repeated run has requested dates again, got batches accepted and      *)
(* committed, and the file holds what it held.                             *)
C2_Witness ==
    /\ Committed
    /\ repeat
    /\ Coherent
    /\ ~backfill
    /\ all_results # <<>>
    /\ \E f \in Funds : History(disk, f) # <<>>
    /\ SameObservations(disk, diskAtStart)

(* C3: get_missing_dates returns, in the descending order of the window,   *)
(* exactly the window dates that are not in unavailable_dates and for      *)
(* which some fund holds no entry.                                         *)
C3_MissingDatesExact ==
    \A n \in 1..MaxWindow :
        LET window == GetBusinessDays(n, today)
            missing == GetMissingDates(disk, n, today)
        IN  missing.ok =>
              /\ Range(missing.dates) \subseteq Range(window)
              /\ \A d \in Range(window) :
                    d \in Range(missing.dates)
                    <=> /\ d \notin Unavailable(disk)
                        /\ \E f \in Funds : EntriesOn(History(disk, f), d.ymd) = {}
              /\ \A i \in 1..(Len(missing.dates) - 1) :
                    missing.dates[i].ymd > missing.dates[i + 1].ymd

(* The file covers a window date for one fund only, and that date is       *)
(* returned, while a date of the window that is marked unavailable is not. *)
C3_Witness ==
    LET window == GetBusinessDays(MaxWindow, today)
        missing == GetMissingDates(disk, MaxWindow, today)
    IN  /\ missing.ok
        /\ \E d \in Range(missing.dates) :
              /\ \E f \in Funds : EntriesOn(History(disk, f), d.ymd) # {}
              /\ \E f \in Funds : EntriesOn(History(disk, f), d.ymd) = {}
        /\ \E d \in Range(window) :
              d \in Unavailable(disk) /\ d \notin Range(missing.dates)

----------------------------------------------------------------------------
(* The page of request r displayed the date a, another date than r, at     *)
(* most 5 days away                                                        *)
Substituted(r, a) ==
    /\ ~source[r].error
    /\ a \in source[r].as_of
    /\ a.iso # r.ymd
    /\ Distance(r, a.iso) <= 5

(* The batch that the run accepted for the date a *)
AcceptedFor(a) ==
    all_results[CHOOSE i \in 1..Len(all_results) : all_results[i].date = a]

Holds(file, f, a) == EntriesOn(History(file, f), a.iso) # {}

(* C4, as claimed: after the commit, a requested date whose page displayed *)
(* another date A within 5 days is in unavailable_dates and every fund     *)
(* holds exactly one entry of date A.                                      *)
C4_SubstitutionExactlyOne ==
    Committed =>
        \A r \in Range(fetched) : \A a \in source[r].as_of :
            Substituted(r, a) =>
                /\ r \in Unavailable(disk)
                /\ \A f \in Funds :
                      Cardinality(EntriesOn(History(disk, f), a.iso)) = 1

(* C4, amended: such a requested date is in unavailable_dates, the run     *)
(* accepted one batch for A, no entry of the requested date comes from     *)
(* that page, and every fund holds at most one entry of date A: one when   *)
(* it held one before the run or the accepted batch prices the fund (the   *)
(* new entry is that price), none otherwise.                               *)
C4_SubstitutionAtMostOne ==
    Committed =>
        \A r \in Range(fetched) : \A a \in source[r].as_of :
            Substituted(r, a) =>
                /\ r \in Unavailable(disk)
                /\ a \in Keys(all_results)
                /\ \A f \in Funds :
                      /\ Cardinality(EntriesOn(History(disk, f), a.iso)) <= 1
                      /\ Holds(disk, f, a)
                           <=> \/ Holds(diskAtStart, f, a)
                               \/ AcceptedFor(a).results[f].nav # {}
                      /\ \A e \in Added(diskAtStart, disk, f) :
                            /\ e.date = a =>
                                  /\ e.nav = AcceptedFor(a).results[f].nav
                                  /\ e.change_percent
                                       = AcceptedFor(a).results[f].change_percent
                            /\ e.date.iso = r.ymd =>
                                  \E r2 \in Range(fetched) :
                                      ~source[r2].error /\ e.date \in source[r2].as_of

(* Two requested dates of one run resolved to the same date A, the later   *)
(* one is marked unavailable and every fund holds one entry of date A,     *)
(* added by the run.                                                       *)
C4_Witness ==
    /\ Committed
    /\ \E r1 \in Range(fetched) : \E r2 \in Range(fetched) :
          /\ r1 # r2
          /\ Substituted(r1, YmdToIso(r2))
          /\ ~source[r2].error /\ source[r2].as_of = {YmdToIso(r2)}
          /\ r1 \in Unavailable(disk)
          /\ r2 \notin Unavailable(disk)
          /\ \A f \in Funds :
                /\ Cardinality(EntriesOn(History(disk, f), r2.ymd)) = 1
                /\ ~Holds(diskAtStart, f, YmdToIso(r2))

(* C5: after the commit, a requested date whose page displayed a date more *)
(* than 5 days away is in unavailable_dates, nothing was extracted from    *)
(* that page and an entry of the displayed date is added only if another   *)
(* request of the run resolved to it within range; a page that displays a  *)
(* date at most 5 days away is not rejected: the run holds a batch for it. *)
C5_OutOfRangeDiscarded ==
    Committed =>
        \A r \in Range(fetched) : \A a \in source[r].as_of :
            ~source[r].error =>
                IF Distance(r, a.iso) > 5
                THEN /\ r \in Unavailable(disk)
                     /\ source[r].quotes = {}
                     /\ \A f \in Funds : \A e \in Added(diskAtStart, disk, f) :
                           e.date = a =>
                               \E r2 \in Range(fetched) :
                                   /\ Answered(r2, a.iso)
                                   /\ Distance(r2, a.iso) <= 5
                ELSE a \in Keys(all_results)

(* One request of the run was answered 6 days off and is newly marked      *)
(* unavailable, with no entry of the displayed date; another was answered  *)
(* exactly 5 days off and its prices are stored.                           *)
C5_Witness ==
    /\ Committed
    /\ \E r \in Range(fetched) : \E a \in source[r].as_of :
          /\ ~source[r].error
          /\ Distance(r, a.iso) = 6
          /\ r \in Unavailable(disk) /\ r \notin Unavailable(diskAtStart)
          /\ \A f \in Funds : ~Holds(disk, f, a)
    /\ \E r \in Range(fetched) : \E a \in source[r].as_of :
          /\ ~source[r].error
          /\ Distance(r, a.iso) = 5
          /\ \A f \in Funds : \E e \in Added(diskAtStart, disk, f) : e.date = a

(* C6, as claimed: after the commit, a requested date whose page displayed *)
(* no 'as of' date has not been added to unavailable_dates and is returned *)
(* as missing by the next incremental run.                                 *)
C6_UnresolvedNotMarked ==
    Committed =>
        \A r \in Range(fetched) :
            (Unresolved(r) /\ r \notin Unavailable(diskAtStart)) =>
                /\ r \notin Unavailable(disk)
                /\ r \in MissingNext

----------------------------------------------------------------------------
(* Every batch that a request of the run resolved to is in the file *)
AcceptedBatchesStored ==
    \A r \in Range(fetched) : \A a \in source[r].as_of :
        (~source[r].error /\ Distance(r, a.iso) <= 5) =>
            /\ a \in Keys(all_results)
            /\ \A f \in Funds :
                  AcceptedFor(a).results[f].nav # {} => Holds(disk, f, a)

(* C7, as claimed: after the commit of a run in which the request of a     *)
(* date raised, every date of the run was requested once, the failed date  *)
(* has not been added to unavailable_dates, the batches of the other dates *)
(* are stored, and the next incremental run returns the failed date as     *)
(* missing.                                                                *)
C7_FailedDateMissingNext ==
    Committed =>
        \A r \in Range(fetched) :
            Failed(r) =>
                /\ fetched = dates_to_scrape
                /\ Cardinality(Range(fetched)) = Len(fetched)
                /\ r \in Unavailable(disk) => r \in Unavailable(diskAtStart)
                /\ AcceptedBatchesStored
                /\ r \in MissingNext

(* C7, amended: as claimed, except that the next incremental run returns   *)
(* the failed date as missing unless the date was marked unavailable       *)
(* before the run or every fund holds an entry for it after the commit.    *)
C7_FailureIsolated ==
    Committed =>
        \A r \in Range(fetched) :
            Failed(r) =>
                /\ fetched = dates_to_scrape
                /\ Cardinality(Range(fetched)) = Len(fetched)
                /\ r \in Unavailable(disk) <=> r \in Unavailable(diskAtStart)
                /\ AcceptedBatchesStored
                /\ r \in MissingNext
                     <=> /\ r \notin Unavailable(diskAtStart)
                         /\ \E f \in Funds : ~Holds(disk, f, YmdToIso(r))

(* The first request of a run raised, the second was answered with prices  *)
(* that the commit stored, and the failed date is missing for the next run.*)
C7_Witness ==
    /\ Committed
    /\ Len(fetched) = 2
    /\ Failed(fetched[1])
    /\ ~Failed(fetched[2])
    /\ \A f \in Funds : Added(diskAtStart, disk, f) # {}
    /\ fetched[1] \notin Unavailable(disk)
    /\ fetched[1] \in MissingNext

(* C8, as claimed: a run in which every request raised does not end DONE   *)
(* and does not exit with status 0.                                        *)
C8_TotalFailureAborts ==
    ( /\ fetched # <<>>
      /\ fetched = dates_to_scrape
      /\ \A r \in Range(fetched) : Failed(r) )
    => (pc # "done" /\ ExitStatus # {0})

(* C9, as claimed: at every point the file is complete, and it is the file *)
(* from before the run or the store the run produced.                      *)
C9_AtomicCommit ==
    /\ disk.state # "partial"
    /\ \/ disk = diskAtStart
       \/ disk = Written(data)

(* C10: a run that starts on an unreadable file leaves the file as it was, *)
(* merges nothing, never reaches the write and does not exit with status 0.*)
C10_CorruptStoreFatal ==
    diskAtStart.state = "partial" =>
        /\ disk = diskAtStart
        /\ data = EmptyStore
        /\ pc \in {"idle", "fetch", "failed"}
        /\ ExitStatus # {0}
        /\ (pc = "fetch" => backfill)

(* A backfill run on an unreadable file has fetched every date, holds      *)
(* accepted batches and has failed.                                        *)
C10_Witness ==
    /\ diskAtStart.state = "partial"
    /\ pc = "failed"
    /\ backfill
    /\ fetched = dates_to_scrape
    /\ all_results # <<>>
    /\ skipped_dates # {}
    /\ disk = Truncated

----------------------------------------------------------------------------
(* C11: unavailable_dates only grows: after a commit it holds every date   *)
(* it held when the run started and every date the run skipped, and an     *)
(* incremental run requests no date that it held when the run started.     *)
C11_UnavailableAppendOnly ==
    /\ Committed =>
          /\ Unavailable(diskAtStart) \subseteq Unavailable(disk)
          /\ skipped_dates \subseteq Unavailable(disk)
    /\ (pc # "idle" /\ ~backfill) =>
          /\ Range(dates_to_scrape) \cap Unavailable(diskAtStart) = {}
          /\ Range(fetched) \subseteq Range(dates_to_scrape)

(* A second, incremental run started with a window date marked             *)
(* unavailable, did not request it, skipped another date and committed.    *)
C11_Witness ==
    /\ Committed
    /\ ~backfill
    /\ \E d \in Range(GetBusinessDays(num_days, today)) :
          d \in Unavailable(diskAtStart) /\ d \notin Range(fetched)
    /\ \E d \in skipped_dates : d \notin Unavailable(diskAtStart)
    /\ Unavailable(disk) = Unavailable(diskAtStart) \cup skipped_dates

----------------------------------------------------------------------------
(* Saturday and Sunday of the calendar, Monday being a multiple of 7 *)
IsWeekend(day) == day % 7 \in {5, 6}

(* seq holds n dates, most recent first, none on a weekend, none after     *)
(* end_day, and every weekday between its first and its last date.         *)
WeekdaysDescending(seq, n, end_day) ==
    /\ Len(seq) = n
    /\ \A i \in 1..Len(seq) :
          /\ DOMAIN seq[i] = {"ymd"}
          /\ ~IsWeekend(seq[i].ymd)
          /\ seq[i].ymd <= end_day
    /\ \A i, j \in 1..Len(seq) : i < j => seq[i].ymd > seq[j].ymd
    /\ seq # <<>> =>
          \A day \in seq[Len(seq)].ymd .. seq[1].ymd :
              ~IsWeekend(day) => Ymd(day) \in Range(seq)

(* C12: get_business_days(count, end_date) returns, for every count >= 0   *)
(* and every end date, exactly count dates, most recent first and strictly *)
(* decreasing, none a Saturday or Sunday, none later than end_date, and    *)
(* with no weekday between the first and the last of them left out.        *)
C12_BusinessDays ==
    pc = "done" => WeekdaysDescending(dates_to_scrape, num_days, today)

(* The largest count, asked for on a Sunday: the dates start on the Friday *)
(* before and reach back over a second weekend.                            *)
C12_Witness ==
    /\ pc = "done"
    /\ num_days = MaxCount
    /\ IsWeekend(today) /\ IsWeekend(today - 1)
    /\ Len(dates_to_scrape) = MaxCount
    /\ dates_to_scrape[1] = Ymd(today - 2)
    /\ dates_to_scrape[MaxCount].ymd < today - 8

----------------------------------------------------------------------------
(* The file the run started with is missing or holds no entry and no       *)
(* unavailable date.                                                       *)
EmptyAtStart ==
    /\ diskAtStart.state # "partial"
    /\ \A f \in Funds : History(diskAtStart, f) = <<>>
    /\ Unavailable(diskAtStart) = {}

(* The source answered every requested date with that date and a price of  *)
(* every fund.                                                             *)
EveryDateFullyPriced ==
    \A r \in Range(dates_to_scrape) :
        /\ Answered(r, r.ymd)
        /\ \E q \in source[r].quotes : \A f \in Funds : q[f].nav # {}

Window == GetBusinessDays(num_days, today)

(* C13: from an empty store, a committed incremental run of window N whose *)
(* every requested date R is answered with as_of = R and a price of every  *)
(* fund leaves each fund with exactly N entries, one of each window date   *)
(* with the price shown for it, and unavailable_dates empty.               *)
C13_EndToEnd ==
    (Committed /\ ~backfill /\ EmptyAtStart /\ EveryDateFullyPriced) =>
        /\ \A f \in Funds :
              /\ Len(History(disk, f)) = num_days
              /\ \A d \in Range(Window) :
                    \E e \in Range(History(disk, f)) :
                        /\ e.date = YmdToIso(d)
                        /\ \E q \in source[d].quotes : e.nav = q[f].nav
              /\ \A e \in Range(History(disk, f)) :
                    \E d \in Range(Window) : e.date = YmdToIso(d)
        /\ Unavailable(disk) = {}

(* Such a run, over the widest window *)
C13_Witness ==
    /\ Committed /\ ~backfill /\ EmptyAtStart /\ EveryDateFullyPriced
    /\ num_days = MaxWindow
    /\ Len(fetched) = MaxWindow
    /\ \A f \in Funds : Len(History(disk, f)) = MaxWindow

----------------------------------------------------------------------------
(* The price of the latest entry the fund held when the run started *)
LatestPriceAtStart(f) ==
    History(diskAtStart, f)[Len(History(diskAtStart, f))].nav

----------------------------------------------------------------------------
(* C15: the merge is append-only. Every entry a fund held when the run     *)
(* started is, with its date, price and change_percent, in the store the   *)
(* run writes and in the file it commits, once; so an observation that a   *)
(* backfill delivers at another price for a stored date changes nothing.   *)
C15_MergeAppendOnly ==
    /\ pc = "saving" =>
          \A f \in Funds : Range(History(diskAtStart, f)) \subseteq Range(data.funds[f])
    /\ Committed =>
          \A f \in Funds : \A e \in Range(History(diskAtStart, f)) :
              /\ e \in Range(History(disk, f))
              /\ Cardinality(EntriesOn(History(disk, f), e.date.iso)) = 1

(* A committed backfill delivered, for a date a fund held, a price other   *)
(* than the stored one.                                                    *)
C15_Witness ==
    /\ Committed
    /\ backfill
    /\ \E f \in Funds : \E i \in 1..Len(all_results) :
          \E e \in Range(History(diskAtStart, f)) :
              /\ e.date = all_results[i].date
              /\ all_results[i].results[f].nav # {}
              /\ all_results[i].results[f].nav # e.nav
              /\ e \in Range(History(disk, f))

----------------------------------------------------------------------------
(* The run wrote the file, whole, with the timestamps of this run *)
CommittedOnce ==
    /\ disk = Written(data)
    /\ disk.content.last_updated = {runs}
    /\ disk.content.last_checked = {runs}

(* The run has neither merged nor written *)
StoreUntouched == data = EmptyStore /\ disk = diskAtStart

(* C16, as claimed: in both modes the store is loaded before the first     *)
(* fetch, so that no date is fetched when the file cannot be read; nothing *)
(* is merged or written before the last date is fetched; and a run that    *)
(* ends successfully has committed once, with the timestamps updated.      *)
C16_RunOrder ==
    /\ fetched # <<>> => diskAtStart.state # "partial"
    /\ Len(fetched) < Len(dates_to_scrape) => StoreUntouched
    /\ pc = "done" => CommittedOnce

(* C16, amended: an incremental run loads the store before the first       *)
(* fetch, a backfill run only after the last one, so that a backfill of an *)
(* unreadable file fetches and then fails; nothing is merged or written    *)
(* before the last date is fetched; and a run that ends successfully has   *)
(* either committed once, after fetching every requested date, with the    *)
(* timestamps updated, or is an incremental run that found no missing date *)
(* and left the file and its timestamps as they were.                      *)
C16_RunOrderByMode ==
    /\ (~backfill /\ fetched # <<>>) => diskAtStart.state # "partial"
    /\ (backfill /\ diskAtStart.state = "partial" /\ pc # "idle") =>
          pc \in {"fetch", "failed"} /\ StoreUntouched
    /\ pc = "fetch" => StoreUntouched
    /\ pc \in {"saving", "crashed"} => fetched = dates_to_scrape
    /\ pc = "done" =>
          \/ /\ dates_to_scrape # <<>>
             /\ fetched = dates_to_scrape
             /\ CommittedOnce
          \/ /\ ~backfill
             /\ dates_to_scrape = <<>>
             /\ fetched = <<>>
             /\ StoreUntouched

(* A second run in backfill mode fetched every date of its window and      *)
(* committed over the file of the first run.                               *)
C16_Witness ==
    /\ pc = "done"
    /\ backfill
    /\ runs = MaxRuns
    /\ Len(fetched) = MaxWindow
    /\ all_results # <<>>
    /\ diskAtStart.state = "complete"
    /\ diskAtStart.content.last_updated # {runs}
    /\ CommittedOnce

----------------------------------------------------------------------------
(* C17: the dates a backfill run requests are the num_days most recent     *)
(* weekdays up to today, in that order, whatever the file holds: dates     *)
(* that every fund covers and dates marked unavailable are requested       *)
(* again, and a run that reaches the merge has requested them all.         *)
C17_BackfillRequestsWholeWindow ==
    backfill =>
        /\ WeekdaysDescending(dates_to_scrape, num_days, today)
        /\ \A day \in (dates_to_scrape[1].ymd + 1)..today : IsWeekend(day)
        /\ Len(fetched) <= Len(dates_to_scrape)
        /\ fetched = SubSeq(dates_to_scrape, 1, Len(fetched))
        /\ pc \in {"saving", "crashed", "done"} => fetched = dates_to_scrape

(* A committed backfill requested a date that every fund held and a date   *)
(* that was marked unavailable when it started.                            *)
C17_Witness ==
    /\ Committed
    /\ backfill
    /\ \E d \in Range(fetched) : d \in Unavailable(diskAtStart)
    /\ \E d \in Range(fetched) :
          \A f \in Funds : Holds(diskAtStart, f, YmdToIso(d))

----------------------------------------------------------------------------
(* The dates of the rows that a column contributes *)
DatesIn(column) ==
    IF column.key_error THEN {}
    ELSE {Iso(r.ts) : r \in Range(DropNa(column.close))}

(* The n latest of a set of dates *)
LatestDates(dates, n) ==
    {d \in dates : Cardinality({e \in dates : e.iso > d.iso}) < n}

StrictlyIncreasing(history) ==
    \A i \in 1..(Len(history) - 1) : history[i].date.iso < history[i + 1].date.iso

----------------------------------------------------------------------------
(* No request of the run raised, and every batch the run accepted prices   *)
(* every fund.                                                             *)
CleanRun ==
    /\ \A r \in Range(fetched) : ~Failed(r)
    /\ \A i \in 1..Len(all_results) :
          \A f \in Funds : all_results[i].results[f].nav # {}

Settled(d) ==
    \/ d \in Unavailable(disk)
    \/ \A f \in Funds : Holds(disk, f, YmdToIso(d))

(* C19: after a committed incremental run without a failed request, whose  *)
(* accepted batches price every fund, every window date is covered by      *)
(* every fund or is in unavailable_dates and get_missing_dates returns     *)
(* nothing; an incremental run started right then with the same window     *)
(* ends at once, without a fetch and with the file as it was.              *)
C19_Convergence ==
    /\ []((Committed /\ ~backfill /\ CleanRun) =>
             /\ \A d \in Range(Window) : Settled(d)
             /\ MissingNext = {})
    /\ [][ ( /\ Committed /\ ~backfill /\ CleanRun
             /\ runs' = runs + 1
             /\ ~backfill' /\ num_days' = num_days )
           => ( /\ pc' = "done"
                /\ dates_to_scrape' = <<>>
                /\ fetched' = <<>>
                /\ disk' = disk ) ]_vars

(* The second of two incremental runs over the widest window found no      *)
(* missing date: the first run's requests were all answered, one date is   *)
(* unavailable and one is covered.                                         *)
C19_Witness ==
    /\ repeat
    /\ ~backfill
    /\ runs = MaxRuns
    /\ num_days = MaxWindow
    /\ pc = "done"
    /\ dates_to_scrape = <<>>
    /\ disk = diskAtStart
    /\ DOMAIN source = Range(Window)
    /\ \A d \in DOMAIN source : ~source[d].error
    /\ \E d \in Range(Window) : d \in Unavailable(disk)
    /\ \E d \in Range(Window) : \A f \in Funds : Holds(disk, f, YmdToIso(d))

----------------------------------------------------------------------------
(* The last answer to a request of r displayed a date before r, within the *)
(* accepted distance                                                       *)
Stale(r) ==
    /\ ~source[r].error
    /\ \E a \in source[r].as_of :
          a.iso < r.ymd /\ r.ymd - a.iso <= MaxOffsetDays

(* C20: no trading date is lost to a stale page. A window date whose last  *)
(* answer displayed an earlier date, and which some fund does not hold     *)
(* yet, is requested by every incremental run that gets to fetch or ends   *)
(* successfully while the date is in its window, so that the run can store *)
(* it once the source publishes it.                                        *)
C20_StaleDateRequestedAgain ==
    (pc \in {"fetch", "saving", "done"} /\ ~backfill) =>
        \A r \in DOMAIN source :
            ( /\ Stale(r)
              /\ r \in Range(Window)
              /\ \E f \in Funds : ~Holds(diskAtStart, f, YmdToIso(r)) )
            => r \in Range(dates_to_scrape)

====
